---- MODULE Spec2Model ----
(***************************************************************************)
(* Moirai dashboard server (server.py): the upstream registry built from   *)
(* the process environment, the credential-injecting proxy handler, the    *)
(* public server listing and the AWS endpoints' enabled/disabled gate.     *)
(*                                                                         *)
(* Text is modelled as a sequence of one-character strings, so that        *)
(* concatenation, rstrip and substring containment are computed.  A value  *)
(* that Python may leave as None is a tuple of length 0 (None) or 1        *)
(* (Some(v)).  The handlers waiting on their outbound call form a bag:     *)
(* a handler has no identity beyond its local variables.                   *)
(***************************************************************************)
EXTENDS Integers, Sequences, FiniteSets, Bags, TLC

VARIABLES environ, started, SERVERS, AWS_ENABLED, AWS_REGION, inflight, last

vars == <<environ, started, SERVERS, AWS_ENABLED, AWS_REGION, inflight, last>>

(***************************************************************************)
(* Bounds of the model.                                                    *)
(***************************************************************************)
\* slots of the environment that carry any CI_SERVER variable
MaxSetSlots == 2
\* proxy requests that may be in flight at the same time
MaxReqs == 2

\* range(1, 11): the numbered slots are 1 .. 10
LastNumbered == 10

(***************************************************************************)
(* Text helpers.                                                           *)
(***************************************************************************)
None == <<>>
Some(v) == <<v>>

\* bool(v) of an Optional[str]: None and "" are falsy
Truthy(v) == v # None /\ v[1] # <<>>

\* t occurs in s as a contiguous substring (Python: t in s)
Contains(s, t) ==
    \E i \in 1..(Len(s) - Len(t) + 1) : SubSeq(s, i, i + Len(t) - 1) = t

StartsWith(s, t) == Len(s) >= Len(t) /\ SubSeq(s, 1, Len(t)) = t

EndsWith(s, t) == Len(s) >= Len(t) /\ SubSeq(s, Len(s) - Len(t) + 1, Len(s)) = t

\* str.rstrip(c): drops every trailing occurrence of the character c
RECURSIVE rstrip(_, _)
rstrip(s, c) ==
    IF s # <<>> /\ s[Len(s)] = c
    THEN rstrip(SubSeq(s, 1, Len(s) - 1), c)
    ELSE s

\* str(i) of a slot number, as characters
Digits(i) == IF i < 10 THEN <<ToString(i)>> ELSE <<ToString(i \div 10), ToString(i % 10)>>

\* the f-string prefixes and literals of the source, as characters
T_server == <<"s","e","r","v","e","r","-">>
T_CI_Server == <<"C","I"," ","S","e","r","v","e","r">>
T_auto == <<"a","u","t","o">>
T_api == <<"/","a","p","i","/">>
T_Bearer == <<"B","e","a","r","e","r"," ">>
T_us_east_1 == <<"u","s","-","e","a","s","t","-","1">>
T_Server_not_found == <<"S","e","r","v","e","r"," ","n","o","t"," ","f","o","u","n","d">>
T_AWS_not_configured == <<"A","W","S"," ","n","o","t"," ","c","o","n","f","i","g","u","r","e","d">>
T_boto3_missing == <<"b","o","t","o","3"," ","n","o","t"," ","i","n","s","t","a","l","l","e","d">>

(***************************************************************************)
(* The process environment.                                                *)
(***************************************************************************)
Fields == {"URL", "TOKEN", "NAME", "TYPE"}

\* the variable name of a field of a slot; slot 0 is the unnumbered one
Key(i, f) == IF i = 0 THEN "CI_SERVER_" \o f
             ELSE "CI_SERVER_" \o ToString(i) \o "_" \o f

Slots == 0..LastNumbered

AwsKeys == {"AWS_ACCESS_KEY_ID", "AWS_SECRET_ACCESS_KEY", "AWS_REGION"}

EnvKeys == {Key(i, f) : i \in Slots, f \in Fields} \cup AwsKeys

\* os.environ.get(key): None when unset
Get(key) == environ[key]

\* os.environ.get(key, default)
GetOr(key, default) == IF environ[key] = None THEN default ELSE environ[key][1]

(***************************************************************************)
(* load_servers                                                            *)
(***************************************************************************)
\* the dict appended for slot i
Entry(i) ==
    [id    |-> T_server \o Digits(i),
     name  |-> GetOr(Key(i, "NAME"),
                     IF i = 0 THEN T_CI_Server ELSE T_CI_Server \o <<" ">> \o Digits(i)),
     url   |-> rstrip(Get(Key(i, "URL"))[1], "/"),
     token |-> Get(Key(i, "TOKEN"))[1],
     type  |-> GetOr(Key(i, "TYPE"), T_auto)]

\* if url and token:
Configured(i) == Truthy(Get(Key(i, "URL"))) /\ Truthy(Get(Key(i, "TOKEN")))

\* the for loop over range(1, 11), from i on, appending to servers
RECURSIVE NumberedFrom(_, _)
NumberedFrom(i, servers) ==
    IF i > LastNumbered THEN servers
    ELSE NumberedFrom(i + 1, IF Configured(i) THEN Append(servers, Entry(i)) ELSE servers)

load_servers ==
    NumberedFrom(1, IF Configured(0) THEN <<Entry(0)>> ELSE <<>>)

\* get_server falling back to the first entry for an unknown id
get_server_default(server_id) ==
    LET hits == SelectSeq(SERVERS, LAMBDA s : s.id = server_id)
    IN  IF hits # <<>> THEN Some(hits[1])
        ELSE IF SERVERS # <<>> THEN Some(SERVERS[1]) ELSE None

\* get_server(server_id): the first entry with that id, or None
get_server(server_id) ==
    LET hits == SelectSeq(SERVERS, LAMBDA s : s.id = server_id)
    IN  IF hits = <<>> THEN None ELSE Some(hits[1])

(***************************************************************************)
(* Module import: AWS_ENABLED, AWS_REGION and SERVERS are computed once.   *)
(***************************************************************************)
NoExchange == [route |-> "none"]

Startup ==
    /\ ~started
    /\ started' = TRUE
    /\ AWS_ENABLED' = (Truthy(Get("AWS_ACCESS_KEY_ID")) /\ Truthy(Get("AWS_SECRET_ACCESS_KEY")))
    /\ AWS_REGION' = GetOr("AWS_REGION", T_us_east_1)
    /\ SERVERS' = load_servers
    /\ UNCHANGED <<environ, inflight, last>>

(***************************************************************************)
(* Flask responses: jsonify(obj), status  /  Response(content, status,     *)
(* content_type)  /  an exception leaving the view function.               *)
(***************************************************************************)
jsonify(obj, status) ==
    [kind |-> "json", status |-> status, content_type |-> "application/json", body |-> obj]

Response(content, status, content_type) ==
    [kind |-> "raw", status |-> status, content_type |-> content_type, body |-> content]

Raised(exc) == [kind |-> "raised", exc |-> exc]

(***************************************************************************)
(* list_servers: GET /api/servers                                          *)
(***************************************************************************)
\* an element that keeps the whole entry
safe_server_leaky(s) ==
    [id |-> s.id, name |-> s.name, type |-> s.type, url |-> s.url, token |-> s.token]

\* one element of safe_servers
safe_server(s) == [id |-> s.id, name |-> s.name, type |-> s.type, url |-> s.url]

safe_servers == [i \in 1..Len(SERVERS) |-> safe_server(SERVERS[i])]

list_servers ==
    /\ started
    /\ last' = [route |-> "servers", result |-> jsonify(safe_servers, 200)]
    /\ UNCHANGED <<environ, started, SERVERS, AWS_ENABLED, AWS_REGION, inflight>>

(***************************************************************************)
(* proxy_request: /proxy/<server_id>/<path:endpoint>                       *)
(***************************************************************************)
Methods == {"GET", "POST", "PUT", "DELETE"}

\* request.get_json() on the inbound body: surrounding blanks are skipped and
\* a run of digits is a JSON number; anything else is not JSON and the call
\* raises werkzeug's BadRequest
JsonDigits == {"1", "7"}

RECURSIVE lstrip(_, _)
lstrip(s, c) == IF s # <<>> /\ s[1] = c THEN lstrip(Tail(s), c) ELSE s

json_loads(data) ==
    LET t == rstrip(lstrip(data, " "), " ")
    IN  IF t # <<>> /\ \A i \in 1..Len(t) : t[i] \in JsonDigits
        THEN [ok |-> TRUE, value |-> t]
        ELSE [ok |-> FALSE, value |-> <<>>]

\* the json= argument of requests: the value serialised again
json_dumps(value) == value

\* the URL with "?" appended also when there is no query string
target_url_always_q(server, endpoint, query_string) ==
    server.url \o T_api \o endpoint \o <<"?">> \o query_string

\* target_url: f"{server['url']}/api/{endpoint}", then "?" + query string
\* when request.query_string is non-empty
target_url(server, endpoint, query_string) ==
    LET base == server.url \o T_api \o endpoint
    IN  IF query_string # <<>> THEN base \o <<"?">> \o query_string ELSE base

\* headers built from the first entry of the registry
headers_first(server) ==
    [Authorization |-> T_Bearer \o SERVERS[1].token, ContentType |-> "application/json"]

\* headers: Authorization and Content-Type
headers(server) ==
    [Authorization |-> T_Bearer \o server.token, ContentType |-> "application/json"]

\* the requests.get / post / put / delete call of the method branch:
\* body is None for GET and DELETE, the decoded JSON otherwise
outbound(method, server, endpoint, query_string, json) ==
    [method  |-> method,
     url     |-> target_url(server, endpoint, query_string),
     headers |-> headers(server),
     body    |-> IF method \in {"POST", "PUT"} THEN Some(json_dumps(json)) ELSE None,
     timeout |-> 30]

\* the call issued a second time
attempts_retry(call) == <<call, call>>

\* the calls the method branch issues for one inbound request
attempts(call) == <<call>>

\* a relay that turns a non-2xx upstream status into a proxy error
relay_checked(resp) ==
    IF resp.status_code >= 400
    THEN [kind |-> "json", status |-> 502, content_type |-> "application/json",
          body |-> [error |-> resp.content]]
    ELSE [kind |-> "raw", status |-> resp.status_code,
          content_type |-> IF resp.content_type = None THEN "application/json"
                           ELSE resp.content_type[1],
          body |-> resp.content]

\* return Response(resp.content, status=resp.status_code,
\*                 content_type=resp.headers.get('Content-Type', 'application/json'))
relay(resp) ==
    Response(resp.content, resp.status_code,
             IF resp.content_type = None THEN "application/json" ELSE resp.content_type[1])

\* except requests.exceptions.RequestException as e:
\*     return jsonify({'error': str(e)}), 502
transport_failure(e) == jsonify([error |-> e.text], 502)

\* if not server: return jsonify({'error': 'Server not found'}), 404
server_not_found == jsonify([error |-> T_Server_not_found], 404)

(***************************************************************************)
(* Inputs of the proxy route and answers of the upstream.                  *)
(***************************************************************************)
ServerIds == {T_server \o <<"0">>, T_server \o <<"1">>, T_server \o <<"1","0">>}

Endpoints == {<<"b","/","3">>}

QueryStrings == {<<>>, <<"x","=","1","&","y","=","2">>}

\* inbound bodies of POST and PUT: a JSON number after a blank, not JSON
Bodies == {<<" ","7">>, <<"{">>}

\* GET and DELETE requests come without a body
Inbound ==
    [server_id : ServerIds, endpoint : Endpoints, method : {"GET", "DELETE"},
     query_string : QueryStrings, data : {<<>>}]
    \cup
    [server_id : ServerIds, endpoint : Endpoints, method : {"POST", "PUT"},
     query_string : QueryStrings, data : Bodies]

Statuses == {200, 500}

\* responses of the upstream: status, raw body, Content-Type header if any
UpstreamResponses ==
    [ok : {TRUE}, status_code : Statuses, content : {<<"[","]">>},
     content_type : {None, Some("text/plain")}]

\* str(e) of a RequestException raised for the call: the library's text,
\* which may quote the URL or a header value of the request it was sending
T_failed == <<"f","a","i","l","e","d",":"," ">>

UpstreamFailures(call) ==
    [ok : {FALSE},
     text : {T_failed, T_failed \o call.url, T_failed \o call.headers.Authorization}]

Outcomes(call) == UpstreamResponses \cup UpstreamFailures(call)

\* one finished run of proxy_request: the request, the calls it issued, what
\* the last call gave (None when there was no call) and what the view returned
Exchange(req, calls, outcome, result) ==
    [route |-> "proxy", req |-> req, calls |-> calls, outcome |-> outcome, result |-> result]

\* proxy_request up to the blocking requests call: lookup, URL, headers and
\* the method branch.  An unknown server returns at once; get_json() raising
\* leaves the function, since BadRequest is no RequestException.
ProxyBegin ==
    /\ started
    /\ BagCardinality(inflight) < MaxReqs
    /\ \E req \in Inbound :
         LET server == get_server(req.server_id)
             json   == json_loads(req.data)
             needs  == req.method \in {"POST", "PUT"}
             call   == outbound(req.method, server[1], req.endpoint,
                                req.query_string, json.value)
         IN  IF server = None
             THEN /\ last' = Exchange(req, <<>>, None, server_not_found)
                  /\ UNCHANGED inflight
             ELSE IF needs /\ ~json.ok
             THEN /\ last' = Exchange(req, <<>>, None, Raised("BadRequest"))
                  /\ UNCHANGED inflight
             ELSE /\ inflight' = inflight (+) SetToBag({[req |-> req, calls |-> attempts(call)]})
                  /\ UNCHANGED last
    /\ UNCHANGED <<environ, started, SERVERS, AWS_ENABLED, AWS_REGION>>

\* the requests call of one handler returns or raises, and the handler returns
ProxyComplete ==
    \E h \in BagToSet(inflight) :
        /\ \E o \in Outcomes(h.calls[Len(h.calls)]) :
             last' = Exchange(h.req, h.calls, Some(o),
                              IF o.ok THEN relay(o) ELSE transport_failure(o))
        /\ inflight' = inflight (-) SetToBag({h})
        /\ UNCHANGED <<environ, started, SERVERS, AWS_ENABLED, AWS_REGION>>

(***************************************************************************)
(* The AWS endpoints.  With AWS enabled the boto3 calls succeed, fail to   *)
(* import or raise; the payload of a success is that of an empty account.  *)
(***************************************************************************)
BotoOutcomes == {"ok", "ImportError", "Exception"}

T_boto_error == <<"d","e","n","i","e","d">>

AwsExchange(route, result) == [route |-> route, result |-> result]

\* aws_status
aws_status_result ==
    jsonify([enabled |-> AWS_ENABLED,
             region  |-> IF AWS_ENABLED THEN Some(AWS_REGION) ELSE None], 200)

\* aws_instances without the AWS_ENABLED gate
aws_instances_ungated(boto) ==
    IF boto = "ok"
    THEN [kind |-> "json", status |-> 200, content_type |-> "application/json",
          body |-> [instances |-> <<>>, total_running |-> 0, total_hourly_cost |-> 0]]
    ELSE [kind |-> "json", status |-> 500, content_type |-> "application/json",
          body |-> [error |-> IF boto = "ImportError" THEN T_boto3_missing ELSE T_boto_error]]

\* aws_instances
aws_instances_result(boto) ==
    IF ~AWS_ENABLED THEN jsonify([error |-> T_AWS_not_configured], 400)
    ELSE IF boto = "ok"
         THEN jsonify([instances |-> <<>>, total_running |-> 0, total_hourly_cost |-> 0], 200)
    ELSE IF boto = "ImportError" THEN jsonify([error |-> T_boto3_missing], 500)
    ELSE jsonify([error |-> T_boto_error], 500)

\* aws_costs: every branch returns jsonify(...) without a status, hence 200
aws_costs_result(boto) ==
    IF ~AWS_ENABLED THEN jsonify([error |-> T_AWS_not_configured, available |-> FALSE], 200)
    ELSE IF boto = "ok"
         THEN jsonify([available |-> TRUE, period_days |-> 30, total_cost |-> 0,
                       ec2_cost |-> 0, daily_costs |-> <<>>], 200)
    ELSE IF boto = "ImportError"
         THEN jsonify([error |-> T_boto3_missing, available |-> FALSE], 200)
    ELSE jsonify([error |-> T_boto_error, available |-> FALSE], 200)

\* aws_autoscaler
aws_autoscaler_result(boto) ==
    IF ~AWS_ENABLED THEN jsonify([error |-> T_AWS_not_configured], 400)
    ELSE IF boto = "ok" THEN jsonify(<<>>, 200)
    ELSE IF boto = "ImportError" THEN jsonify([error |-> T_boto3_missing], 500)
    ELSE jsonify([error |-> T_boto_error], 500)

AwsStep(route, result) ==
    /\ started
    /\ last' = AwsExchange(route, result)
    /\ UNCHANGED <<environ, started, SERVERS, AWS_ENABLED, AWS_REGION, inflight>>

aws_status == AwsStep("/api/aws/status", aws_status_result)

aws_instances == \E boto \in BotoOutcomes : AwsStep("/api/aws/instances", aws_instances_result(boto))

aws_costs == \E boto \in BotoOutcomes : AwsStep("/api/aws/costs", aws_costs_result(boto))

aws_autoscaler == \E boto \in BotoOutcomes : AwsStep("/api/aws/autoscaler", aws_autoscaler_result(boto))

(***************************************************************************)
(* Environments.                                                           *)
(***************************************************************************)
Setting(url, token, name, type) == [URL |-> url, TOKEN |-> token, NAME |-> name, TYPE |-> type]

U_a == <<"h","a">>
U_b == <<"h","b">>
K_1 == <<"k","1">>
K_2 == <<"k","2">>

\* what the variables of one slot may hold
SlotSettings ==
    { Setting(Some(U_a), Some(K_1), None, None),
      Setting(Some(U_b \o <<"/">>), Some(K_2), None, None),
      Setting(Some(U_b \o <<"/","/">>), Some(K_2), Some(<<"n">>), Some(<<"g">>)),
      Setting(Some(<<"/">>), Some(K_1), None, None),
      Setting(Some(<<>>), Some(K_1), None, None),
      Setting(Some(U_a), Some(<<>>), None, None),
      Setting(Some(U_a), None, Some(<<"n">>), None),
      Setting(None, Some(K_1), None, None),
      Setting(Some(U_a), Some(K_2), Some(<<"x">> \o K_1), None),
      Setting(Some(U_b), Some(K_1), Some(<<>>), Some(<<>>)) }

\* the slot and the field a CI_SERVER variable name stands for
SlotOfKey == [k \in EnvKeys \ AwsKeys |-> CHOOSE j \in Slots : \E f \in Fields : k = Key(j, f)]

FieldOfKey == [k \in EnvKeys \ AwsKeys |-> CHOOSE g \in Fields : k = Key(SlotOfKey[k], g)]

\* the environment with the slots of cfg set and the AWS variables of aws
EnvOf(cfg, aws) ==
    [k \in EnvKeys |->
        IF k \in AwsKeys THEN aws[k]
        ELSE IF SlotOfKey[k] \in DOMAIN cfg THEN cfg[SlotOfKey[k]][FieldOfKey[k]] ELSE None]

NoAws == [k \in AwsKeys |-> None]

SlotSets == {S \in SUBSET Slots : Cardinality(S) <= MaxSetSlots}

\* two upstreams with different tokens; one upstream in the last slot; none
ProxyEnvirons ==
    { EnvOf(0 :> Setting(Some(U_b \o <<"/">>), Some(K_2), None, None)
            @@ 1 :> Setting(Some(U_a), Some(K_1), None, None), NoAws),
      EnvOf(10 :> Setting(Some(U_a), Some(K_1), None, None), NoAws),
      EnvOf(<<>>, NoAws) }

AwsEnvirons ==
    { EnvOf(<<>>, aws) : aws \in
        [AwsKeys -> {None, Some(<<>>), Some(<<"e","u">>)}] }

\* before the module is imported
NotStarted ==
    /\ started = FALSE
    /\ SERVERS = <<>>
    /\ AWS_ENABLED = FALSE
    /\ AWS_REGION = <<>>
    /\ inflight = EmptyBag
    /\ last = NoExchange

(***************************************************************************)
(* Specifications.                                                         *)
(***************************************************************************)
\* the proxy route, with concurrent requests
Init == environ \in ProxyEnvirons /\ NotStarted

Next ==
    \/ Startup
    \/ ProxyBegin
    \/ ProxyComplete

Spec == Init /\ [][Next]_vars

\* the registry and its public listing, over many environments
InitRegistry ==
    /\ \E S \in SlotSets : \E cfg \in [S -> SlotSettings] : environ = EnvOf(cfg, NoAws)
    /\ NotStarted

NextRegistry == Startup \/ list_servers

SpecRegistry == InitRegistry /\ [][NextRegistry]_vars

\* the AWS endpoints
InitAws == environ \in AwsEnvirons /\ NotStarted

NextAws == Startup \/ aws_status \/ aws_instances \/ aws_costs \/ aws_autoscaler

SpecAws == InitAws /\ [][NextAws]_vars

(***************************************************************************)
(* Vocabulary of the properties.                                           *)
(***************************************************************************)
Entries == {SERVERS[i] : i \in 1..Len(SERVERS)}

KnownId(id) == \E e \in Entries : e.id = id

EntryOf(id) == CHOOSE e \in Entries : e.id = id

\* a proxy request has been answered (or has raised)
ProxyDone == last.route = "proxy"

\* the outbound calls issued so far that the state still records, each with
\* the inbound request it was issued for
Sent ==
    UNION {{[req |-> h.req, call |-> h.calls[i]] : i \in 1..Len(h.calls)} : h \in BagToSet(inflight)}
    \cup (IF ProxyDone THEN {[req |-> last.req, call |-> last.calls[i]] : i \in 1..Len(last.calls)}
          ELSE {})

\* the view returned a response with this status
Answered(status) == last.result.kind # "raised" /\ last.result.status = status

\* C1: a proxy request for a server id that is no entry's id is answered 404
\* with {error: "Server not found"}, whatever its method, path, query string
\* and body, and no outbound call is made for it
C1_UnknownServer404 ==
    /\ ProxyDone /\ ~KnownId(last.req.server_id) =>
          /\ last.result = [kind |-> "json", status |-> 404, content_type |-> "application/json",
                            body |-> [error |-> T_Server_not_found]]
          /\ last.calls = <<>>
    /\ \A h \in BagToSet(inflight) : KnownId(h.req.server_id)

C1_Witness ==
    /\ ProxyDone /\ ~KnownId(last.req.server_id) /\ SERVERS # <<>>
    /\ last.req.method = "PUT" /\ last.req.query_string # <<>>

\* C2: every outbound call of a request addressed to server A carries
\* "Bearer <A's token>" and goes to A's base URL, and carries the token of no
\* other server, also while requests to other servers are in flight
C2_OwnTokenOnly ==
    \A s \in Sent :
        LET A == EntryOf(s.req.server_id)
        IN  /\ KnownId(s.req.server_id)
            /\ s.call.headers.Authorization = T_Bearer \o A.token
            /\ StartsWith(s.call.url, A.url \o T_api)
            /\ \A B \in Entries : B.token # A.token =>
                   s.call.headers.Authorization # T_Bearer \o B.token

C2_Witness ==
    \E g, h \in BagToSet(inflight) :
        /\ g.req.server_id # h.req.server_id
        /\ EntryOf(g.req.server_id).token # EntryOf(h.req.server_id).token

\* C3: a transport failure is answered 502 with a JSON error whose message
\* contains no configured token and no Authorization value
C3_FailureRedacted ==
    ProxyDone /\ last.outcome # None /\ ~last.outcome[1].ok =>
        /\ Answered(502)
        /\ last.result.kind = "json"
        /\ \A e \in Entries :
              /\ ~Contains(last.result.body.error, e.token)
              /\ ~Contains(last.result.body.error, T_Bearer \o e.token)

\* C5: when the outbound call completes, the caller gets the upstream's status
\* and raw body, also for a non-2xx status, with the upstream's Content-Type
\* or application/json when the upstream sent none
C5_PassThrough ==
    ProxyDone /\ last.outcome # None /\ last.outcome[1].ok =>
        LET up == last.outcome[1]
        IN  /\ last.result.kind = "raw"
            /\ last.result.status = up.status_code
            /\ last.result.body = up.content
            /\ up.content_type # None => last.result.content_type = up.content_type[1]
            /\ up.content_type = None => last.result.content_type = "application/json"

C5_Witness ==
    /\ ProxyDone /\ last.outcome # None /\ last.outcome[1].ok
    /\ last.outcome[1].status_code = 500 /\ last.outcome[1].content_type = None

\* C6: the outbound URL is baseUrl + "/api/" + relativePath, then "?" and the
\* raw query string when there is one and nothing otherwise; the outbound
\* method is the inbound one
C6_UrlAndMethod ==
    \A s \in Sent :
        LET base == EntryOf(s.req.server_id).url \o T_api \o s.req.endpoint
        IN  /\ s.req.query_string # <<>> => s.call.url = base \o <<"?">> \o s.req.query_string
            /\ s.req.query_string = <<>> => s.call.url = base
            /\ s.call.method = s.req.method
            /\ s.call.method \in Methods

C6_Witness ==
    \E s \in Sent, t \in Sent :
        /\ s.req.query_string # <<>> /\ s.call.method = "DELETE"
        /\ t.req.query_string = <<>> /\ t.call.method = "POST"

\* C8: every failure in a proxy request, an inbound body that is not JSON
\* included, is answered from inside the handler with a JSON error and a
\* status; nothing leaves the handler as an exception
C8_NothingPropagates ==
    ProxyDone => last.result.kind # "raised"

\* C9 as stated: a request for a known server has issued exactly one outbound
\* call when it ends
C9_ExactlyOneCall ==
    ProxyDone /\ KnownId(last.req.server_id) => Len(last.calls) = 1

\* the inbound body of a POST or PUT is not JSON
BodyUndecodable(req) == req.method \in {"POST", "PUT"} /\ ~json_loads(req.data).ok

\* C9, amended: never more than one outbound call per request; a request for
\* a known server issues exactly one, except none when its POST/PUT body is
\* not JSON; a 502 ends its handler and leaves the registry as it was
C9_AtMostOneCall ==
    /\ [](/\ \A h \in BagToSet(inflight) : Len(h.calls) = 1
          /\ ProxyDone =>
                /\ Len(last.calls) <= 1
                /\ KnownId(last.req.server_id) =>
                      (Len(last.calls) = 1 <=> ~BodyUndecodable(last.req)))
    /\ [][/\ BagCardinality(inflight') < BagCardinality(inflight)
          /\ last'.outcome # None /\ ~last'.outcome[1].ok
          => /\ SERVERS' = SERVERS
             /\ inflight' \sqsubseteq inflight
             /\ BagCardinality(inflight') = BagCardinality(inflight) - 1]_vars

C9_Witness ==
    /\ ProxyDone /\ last.outcome # None /\ ~last.outcome[1].ok
    /\ Answered(502) /\ Len(last.calls) = 1
    /\ inflight # EmptyBag

\* GET /api/servers has been answered
ListingDone == last.route = "servers"

PublicFields == {"id", "name", "type", "url"}

\* C4 as stated: the listing has one element per entry, each with id, name,
\* type and url only, and no value of it contains a configured token; an empty
\* registry gives 200 and the empty array
C4_NoTokenInListing ==
    ListingDone =>
        /\ last.result.kind = "json" /\ last.result.status = 200
        /\ Len(last.result.body) = Len(SERVERS)
        /\ \A i \in 1..Len(last.result.body) :
              /\ DOMAIN last.result.body[i] = PublicFields
              /\ \A f \in PublicFields, e \in Entries :
                    ~Contains(last.result.body[i][f], e.token)
        /\ SERVERS = <<>> => last.result.body = <<>>

\* C4, amended: the listing has one element per entry, in load order, each
\* with id, name, type and url only, copied from the entry; the token field is
\* never copied, so a value contains a token only where the entry's own id,
\* name, type or url contains it; an empty registry gives 200 and the empty
\* array
C4_ListingOmitsTokenField ==
    ListingDone =>
        /\ last.result.kind = "json" /\ last.result.status = 200
        /\ Len(last.result.body) = Len(SERVERS)
        /\ \A i \in 1..Len(last.result.body) :
              /\ DOMAIN last.result.body[i] = PublicFields
              /\ \A f \in PublicFields : last.result.body[i][f] = SERVERS[i][f]
              /\ \A f \in PublicFields, e \in Entries :
                    Contains(last.result.body[i][f], e.token) => Contains(SERVERS[i][f], e.token)
        /\ SERVERS = <<>> => last.result.body = <<>>

C4_Witness ==
    /\ ListingDone /\ Len(SERVERS) = 2
    /\ \E e \in Entries : Contains(last.result.body[2].name, e.token)
    /\ \A e \in Entries : ~Contains(last.result.body[1].name, e.token)

\* the slot an entry's id names
SlotOfId(id) == CHOOSE i \in Slots : id = T_server \o Digits(i)

\* C10: the registry holds an entry for a slot only if the slot's URL and
\* token are both set and non-empty, in load order with distinct ids, and
\* every entry has a non-empty token and a non-empty base URL without a
\* trailing slash
C10_RegistryWellFormed ==
    started =>
        /\ \A e \in Entries :
              /\ \E i \in Slots : e.id = T_server \o Digits(i)
              /\ Truthy(environ[Key(SlotOfId(e.id), "URL")])
              /\ Truthy(environ[Key(SlotOfId(e.id), "TOKEN")])
              /\ e.token # <<>>
              /\ e.url # <<>>
              /\ ~EndsWith(e.url, <<"/">>)
        /\ \A a, b \in 1..Len(SERVERS) :
              a < b => SlotOfId(SERVERS[a].id) < SlotOfId(SERVERS[b].id)

\* the two credentials that enable the AWS integration are not both set
AwsOff == ~(Truthy(environ["AWS_ACCESS_KEY_ID"]) /\ Truthy(environ["AWS_SECRET_ACCESS_KEY"]))

AwsReads == {"/api/aws/instances", "/api/aws/costs", "/api/aws/autoscaler"}

\* C7 as stated: with AWS not enabled, instances, costs and autoscaler answer
\* 400 with an error payload, and status answers 200 with enabled=false and
\* region=null
C7_DisabledIs400 ==
    started /\ AwsOff =>
        /\ last.route \in AwsReads =>
              /\ last.result.status = 400
              /\ "error" \in DOMAIN last.result.body
        /\ last.route = "/api/aws/status" =>
              /\ last.result.status = 200
              /\ last.result.body = [enabled |-> FALSE, region |-> None]

\* C7, amended: with AWS not enabled, instances and autoscaler answer 400 with
\* an error payload, costs answers 200 with an error payload that says
\* available=false, and status answers 200 with enabled=false and region=null
C7_DisabledAnswers ==
    started /\ AwsOff =>
        /\ last.route \in {"/api/aws/instances", "/api/aws/autoscaler"} =>
              /\ last.result.status = 400
              /\ last.result.body = [error |-> T_AWS_not_configured]
        /\ last.route = "/api/aws/costs" =>
              /\ last.result.status = 200
              /\ last.result.body = [error |-> T_AWS_not_configured, available |-> FALSE]
        /\ last.route = "/api/aws/status" =>
              /\ last.result.status = 200
              /\ last.result.body = [enabled |-> FALSE, region |-> None]

C7_Witness ==
    /\ started /\ AwsOff /\ last.route = "/api/aws/instances"
    /\ Truthy(environ["AWS_ACCESS_KEY_ID"])
====
